---- MODULE Spec2Model ----
(***************************************************************************)
(* Noteful API: the notes / folders / tags routers and the store they act  *)
(* on.  Every router handler is one action; a request is answered by the   *)
(* handler in one step (the express middleware chain of a route is part    *)
(* of its action).  The store is the three mongoose collections.           *)
(***************************************************************************)
EXTENDS Integers, Sequences, FiniteSets, TLC

(* ---------------------------------------------------------------------- *)
(* Bounds of the model                                                     *)
(* ---------------------------------------------------------------------- *)
\* number of folders / tags / notes the clients ever create (ObjectIds are
\* never reused)
MaxFolders == 1
MaxTags == 1
MaxNotes == 1
\* longest tags array a request body carries
MaxTagList == 2
\* a note request differs from the plain one in at most this many places
MaxVaried == 2
\* longest searchTerm of a query
MaxTerm == 1

\* the same in the specification of the wider store, where the clients send
\* plain requests only
WideFolders == 2
WideTags == 2
WideNotes == 1

(* ---------------------------------------------------------------------- *)
(* Values                                                                  *)
(* ---------------------------------------------------------------------- *)
Users == {"u1", "u2"}
Names == {"a", "b"}
Titles == {"x", "y"}
Contents == {"c"}

\* a field that the JSON body does not carry (JS undefined)
Absent == "<absent>"
\* JSON null
Null == "<null>"
\* an id mongoose.Types.ObjectId.isValid rejects
Malformed == "NOT-A-VALID-ID"
\* a well-formed id (12 bytes) that no document ever has
Missing == "DOESNOTEXIST"
\* the body has no tags field
NoTags == <<Absent>>

FolderId(i) == "f" \o ToString(i)
TagId(i) == "t" \o ToString(i)
NoteId(i) == "n" \o ToString(i)
FolderIds == {FolderId(i) : i \in 1..MaxFolders}
TagIds == {TagId(i) : i \in 1..MaxTags}
NoteIds == {NoteId(i) : i \in 1..MaxNotes}

VARIABLES
    folders,      \* the Folder collection: documents [id, name, userId]
    tags,         \* the Tag collection: documents [id, name, userId]
    notes,        \* the Note collection: documents [id, title, content, folderId, tags, userId]
    nextFolder,   \* folders created so far
    nextTag,      \* tags created so far
    nextNote,     \* notes created so far
    req,          \* the request handled last
    res,          \* the response sent to it
    users,        \* the User collection: documents _id, __v, username, password, fullname
    issued,       \* the tokens createAuthToken has signed
    now,          \* the clock, in the unit of the expiry of a token
    inflight      \* the requests that are between two of their store calls

vars ==
    <<folders, tags, notes, nextFolder, nextTag, nextNote, req, res,
      users, issued, now, inflight>>
store == <<folders, tags, notes, nextFolder, nextTag, nextNote>>
\* what the handlers of the notes, folders and tags routers leave alone
others == <<users, issued, now, inflight>>

(* ---------------------------------------------------------------------- *)
(* Requests and responses                                                  *)
(* ---------------------------------------------------------------------- *)
EmptyBody ==
    [title |-> Absent, content |-> Absent, folderId |-> Absent, tags |-> NoTags,
     name |-> Absent, userId |-> Absent]

\* the characters of a searchTerm; the titles and contents of the model are
\* strings of one character
TermChars == {"x", "X", "c", ".", "("}

\* no searchTerm in the query, or an empty one
NoTerm == <<>>

\* the query string of GET /api/notes; a searchTerm is the sequence of its
\* characters
NoQuery == [searchTerm |-> NoTerm, folderId |-> Absent, tagId |-> Absent]

\* fault is the store call that rejects while the request is handled, if any
Request(op, user, id, body) ==
    [op |-> op, user |-> user, id |-> id, body |-> body, query |-> NoQuery,
     fault |-> "none"]

\* the request, with a store call that rejects
Faulty(request, call) == [request EXCEPT !.fault = call]

\* res.json(docs) / res.sendStatus(status): ids are the documents in the
\* body, populated the tag documents embedded in them by populate('tags');
\* calls are the store calls the request issued before it was answered
Reply(status, ids, populated) ==
    [status |-> status, msg |-> "", ids |-> ids, populated |-> populated, badIds |-> <<>>,
     calls |-> <<>>]

\* next(err): the error handler answers err.status with err.message (the
\* messages are written without their backquotes)
SendError(status, msg) ==
    [status |-> status, msg |-> msg, ids |-> {}, populated |-> {}, badIds |-> <<>>,
     calls |-> <<>>]

\* next() out of the last handler of a route: the application's catch-all
SendNotFound == SendError(404, "Not Found")

\* the duplicate-key error passed on as the store raised it
DuplicateUntranslated(msg) == SendError(500, "Internal Server Error")

\* if (err.code === 11000) { err = new Error(msg); err.status = 400; }
DuplicateError(msg) == SendError(400, msg)

\* a middleware that calls next() with no error
Pass == SendError(0, "")

\* the response of a handler that issued these store calls, in this order
Called(calls, response) == [response EXCEPT !.calls = calls]

\* JS truthiness of a body field
Truthy(v) == v \notin {Absent, Null, ""}

\* mongoose.Types.ObjectId.isValid
IsValid(id) == id \notin {Malformed, ""}

\* the check of the body's userId left out
ForeignUserIdUnchecked(u, body) == FALSE

\* req.body.userId && req.body.userId !== userId
ForeignUserId(u, body) == Truthy(body.userId) /\ body.userId # u

\* the set of elements of a sequence
Range(s) == {s[i] : i \in 1..Len(s)}

(* ---------------------------------------------------------------------- *)
(* Store                                                                   *)
(* ---------------------------------------------------------------------- *)
\* the filter { _id: id }, without the owner
FindAnyOwner(coll, id, userId) == {d \in coll : d.id = id}

\* Model.find / findOne with the filter { _id: id, userId }
FindOwned(coll, id, userId) == {d \in coll : d.id = id /\ d.userId = userId}

\* Model.find with the filter { userId }
FindByUser(coll, userId) == {d \in coll : d.userId = userId}

\* no unique index
NoUniqueIndex(coll, id, name, userId) == FALSE

\* the unique index on (name, userId) of Folder and Tag: a write that would
\* leave two documents of one user with one name fails with code 11000
DuplicateKey(coll, id, name, userId) ==
    \E d \in coll : d.id # id /\ d.name = name /\ d.userId = userId

Init ==
    /\ folders = {}
    /\ tags = {}
    /\ notes = {}
    /\ nextFolder = 0
    /\ nextTag = 0
    /\ nextNote = 0
    /\ req = Request("none", Absent, Absent, EmptyBody)
    /\ res = Pass
    /\ users = {}
    /\ issued = {}
    /\ now = 0
    /\ inflight = {}

\* no request is being answered: the server takes the next one
Idle == req.op = "none"

\* the response of the request handled last reaches its client
Respond ==
    /\ ~Idle
    /\ res.status # 0
    /\ UNCHANGED others
    /\ req' = Request("none", Absent, Absent, EmptyBody)
    /\ res' = Pass
    /\ UNCHANGED store

(* ---------------------------------------------------------------------- *)
(* routes/folders.js                                                       *)
(* ---------------------------------------------------------------------- *)
NameBodies ==
    {[EmptyBody EXCEPT !.name = n, !.userId = o] :
        n \in Names \cup {Absent, ""}, o \in Users \cup {Absent, Null}}

\* the cascade run without looking at what was deleted
CascadeAlways(deleted, coll, updated) == updated

\* if (!deleted) return; the cascade runs only after a delete that found a document
Cascade(deleted, coll, updated) == IF deleted = {} THEN coll ELSE updated

\* the $unset applied with the empty filter
UnsetEveryFolder(coll, id) == {[n EXCEPT !.folderId = Absent] : n \in coll}

\* Note.updateMany({ folderId: id }, { $unset: { folderId: '' } })
UnsetFolder(coll, id) ==
    {IF n.folderId = id THEN [n EXCEPT !.folderId = Absent] ELSE n : n \in coll}

FolderList(u) ==
    /\ Idle
    /\ UNCHANGED others
    /\ req' = Request("folders.list", u, Absent, EmptyBody)
    /\ res' = Called(<<"Folder.find">>, Reply(200, {f.id : f \in FindByUser(folders, u)}, {}))
    /\ UNCHANGED store

\* the response of GET /:id
FolderGetResponse(u, id) ==
    IF ~IsValid(id) THEN SendError(400, "The id is not valid")
    ELSE LET result == FindOwned(folders, id, u)
         IN  Called(<<"Folder.findOne">>,
                    IF result # {} THEN Reply(200, {f.id : f \in result}, {})
                    ELSE SendNotFound)

FolderGet(u, id) ==
    /\ Idle
    /\ UNCHANGED others
    /\ req' = Request("folders.get", u, id, EmptyBody)
    /\ res' = FolderGetResponse(u, id)
    /\ UNCHANGED store

FolderPost(u, body) ==
    LET name == body.name
        newFolder == [id |-> FolderId(nextFolder + 1), name |-> name, userId |-> u]
        missing == ~Truthy(name)
        duplicate == DuplicateKey(folders, newFolder.id, name, u)
    IN  /\ Idle
        /\ UNCHANGED others
        /\ req' = Request("folders.post", u, Absent, body)
        /\ IF missing
           THEN /\ res' = SendError(400, "Missing name in request body")
                /\ UNCHANGED store
           ELSE IF duplicate
           THEN /\ res' = Called(<<"Folder.create">>,
                                  DuplicateError("Folder name already exists"))
                /\ UNCHANGED store
           ELSE /\ folders' = folders \cup {newFolder}
                /\ nextFolder' = nextFolder + 1
                /\ res' = Called(<<"Folder.create">>, Reply(201, {newFolder.id}, {}))
                /\ UNCHANGED <<tags, notes, nextTag, nextNote>>

\* the response of PUT /:id: the checks of the handler, Folder.findOneAndUpdate
FolderPutResponse(u, id, body) ==
    IF ~IsValid(id) THEN SendError(400, "The id is not valid")
    ELSE IF ~Truthy(body.name) THEN SendError(400, "Missing name in request body")
    ELSE IF ForeignUserId(u, body)
    THEN SendError(403, "Cannot transfer folder to a different user")
    ELSE IF FindOwned(folders, id, u) = {}
    THEN Called(<<"Folder.findOneAndUpdate">>, SendNotFound)
    ELSE IF DuplicateKey(folders, id, body.name, u)
    THEN Called(<<"Folder.findOneAndUpdate">>, DuplicateError("Folder name already exists"))
    ELSE Called(<<"Folder.findOneAndUpdate">>, Reply(200, {id}, {}))

FolderPut(u, id, body) ==
    LET name == body.name
        found == FindOwned(folders, id, u)
    IN  /\ Idle
        /\ UNCHANGED others
        /\ req' = Request("folders.put", u, id, body)
        /\ res' = FolderPutResponse(u, id, body)
        /\ IF FolderPutResponse(u, id, body).status = 200
           THEN /\ folders' = (folders \ found)
                                \cup {[f EXCEPT !.name = name, !.userId = u] : f \in found}
                /\ UNCHANGED <<tags, notes, nextFolder, nextTag, nextNote>>
           ELSE UNCHANGED store

\* the response of DELETE /:id
FolderDeleteResponse(u, id) ==
    IF ~IsValid(id) THEN SendError(400, "The id is not valid")
    ELSE Called(Cascade(FindOwned(folders, id, u), <<"Folder.findOneAndDelete">>,
                        <<"Folder.findOneAndDelete", "Note.updateMany">>),
                Reply(204, {}, {}))

FolderDelete(u, id) ==
    LET deleted == FindOwned(folders, id, u)
    IN  /\ Idle
        /\ UNCHANGED others
        /\ req' = Request("folders.delete", u, id, EmptyBody)
        /\ res' = FolderDeleteResponse(u, id)
        /\ IF ~IsValid(id)
           THEN UNCHANGED store
           ELSE /\ folders' = folders \ deleted
                /\ notes' = Cascade(deleted, notes, UnsetFolder(notes, id))
                /\ UNCHANGED <<tags, nextFolder, nextTag, nextNote>>

(* ---------------------------------------------------------------------- *)
(* routes/tags.js                                                          *)
(* ---------------------------------------------------------------------- *)
\* Model.findByIdAndUpdate(id, ...) is findOneAndUpdate({ _id: id }, ...).
\* The router passes the object { _id: id, userId } as the id; mongoose casts
\* it to an ObjectId by taking its _id, so the userId of the object is not
\* part of the filter.
FindById(coll, cond) == {d \in coll : d.id = cond.id}

\* the tags of the matching notes emptied
PullEveryTag(coll, id) ==
    {IF id \in n.tags THEN [n EXCEPT !.tags = {}] ELSE n : n \in coll}

\* Note.updateMany({ tags: id }, { $pull: { tags: id } })
PullTag(coll, id) ==
    {IF id \in n.tags THEN [n EXCEPT !.tags = n.tags \ {id}] ELSE n : n \in coll}

TagList(u) ==
    /\ Idle
    /\ UNCHANGED others
    /\ req' = Request("tags.list", u, Absent, EmptyBody)
    /\ res' = Called(<<"Tag.find">>, Reply(200, {t.id : t \in FindByUser(tags, u)}, {}))
    /\ UNCHANGED store

\* Tag.find returns an array, which is truthy also when it is empty
TagGetResponse(u, id) ==
    IF ~IsValid(id) THEN SendError(400, "The id is not valid")
    ELSE LET result == FindOwned(tags, id, u)
         IN  Called(<<"Tag.find">>, Reply(200, {t.id : t \in result}, {}))

TagGet(u, id) ==
    /\ Idle
    /\ UNCHANGED others
    /\ req' = Request("tags.get", u, id, EmptyBody)
    /\ res' = TagGetResponse(u, id)
    /\ UNCHANGED store

TagPost(u, body) ==
    LET name == body.name
        newTag == [id |-> TagId(nextTag + 1), name |-> name, userId |-> u]
        missing == ~Truthy(name)
        duplicate == DuplicateKey(tags, newTag.id, name, u)
    IN  /\ Idle
        /\ UNCHANGED others
        /\ req' = Request("tags.post", u, Absent, body)
        /\ IF missing
           THEN /\ res' = SendError(400, "Missing name in request body")
                /\ UNCHANGED store
           ELSE IF duplicate
           THEN /\ res' = Called(<<"Tag.create">>, DuplicateError("Tag name already exists"))
                /\ UNCHANGED store
           ELSE /\ tags' = tags \cup {newTag}
                /\ nextTag' = nextTag + 1
                /\ res' = Called(<<"Tag.create">>, Reply(201, {newTag.id}, {}))
                /\ UNCHANGED <<folders, notes, nextFolder, nextNote>>

\* the response of PUT /:id: the checks of the handler, Tag.findByIdAndUpdate
TagPutResponse(u, id, body) ==
    IF ~IsValid(id) THEN SendError(400, "The id is not valid")
    ELSE IF ~Truthy(body.name) THEN SendError(400, "Missing name in request body")
    ELSE IF u # body.userId
    THEN SendError(403, "Cannot transfer a tag to a different user")
    ELSE IF FindById(tags, [id |-> id, userId |-> u]) = {}
    THEN Called(<<"Tag.findByIdAndUpdate">>, SendNotFound)
    ELSE IF DuplicateKey(tags, id, body.name, u)
    THEN Called(<<"Tag.findByIdAndUpdate">>, DuplicateError("Tag name already exists"))
    ELSE Called(<<"Tag.findByIdAndUpdate">>, Reply(200, {id}, {}))

TagPut(u, id, body) ==
    LET name == body.name
        found == FindById(tags, [id |-> id, userId |-> u])
    IN  /\ Idle
        /\ UNCHANGED others
        /\ req' = Request("tags.put", u, id, body)
        /\ res' = TagPutResponse(u, id, body)
        /\ IF TagPutResponse(u, id, body).status = 200
           THEN /\ tags' = (tags \ found)
                             \cup {[t EXCEPT !.name = name, !.userId = u] : t \in found}
                /\ UNCHANGED <<folders, notes, nextFolder, nextTag, nextNote>>
           ELSE UNCHANGED store

\* the response of DELETE /:id
TagDeleteResponse(u, id) ==
    IF ~IsValid(id) THEN SendError(400, "The id is not valid")
    ELSE Called(Cascade(FindOwned(tags, id, u), <<"Tag.findOneAndDelete">>,
                        <<"Tag.findOneAndDelete", "Note.updateMany">>),
                Reply(204, {}, {}))

TagDelete(u, id) ==
    LET deleted == FindOwned(tags, id, u)
    IN  /\ Idle
        /\ UNCHANGED others
        /\ req' = Request("tags.delete", u, id, EmptyBody)
        /\ res' = TagDeleteResponse(u, id)
        /\ IF ~IsValid(id)
           THEN UNCHANGED store
           ELSE /\ tags' = tags \ deleted
                /\ notes' = Cascade(deleted, notes, PullTag(notes, id))
                /\ UNCHANGED <<folders, nextFolder, nextTag, nextNote>>

(* ---------------------------------------------------------------------- *)
(* routes/notes.js                                                         *)
(* ---------------------------------------------------------------------- *)
ValidateObjectIds(body) ==
    IF Truthy(body.folderId) /\ ~IsValid(body.folderId)
    THEN SendError(400, "The folderId is invalid")
    ELSE IF body.tags # NoTags /\ \E t \in Range(body.tags) : ~IsValid(t)
    THEN SendError(400, "The tags array contains an invalid id")
    ELSE Pass

\* Folder.findOne({ _id: folderId }), without the owner
ValidateFolderExists(u, body) ==
    IF ~Truthy(body.folderId) THEN Pass
    ELSE IF {f \in folders : f.id = body.folderId} = {}
    THEN SendError(422, "The folderId does not exist")
    ELSE Pass

ValidateFolderOwnership(u, body) ==
    IF ~Truthy(body.folderId) THEN Pass
    ELSE IF FindOwned(folders, body.folderId, u) = {}
    THEN SendError(422, "The folderId does not exist")
    ELSE Pass

\* Tag.find({ _id: { $in: tags } }), without the owner
ValidateTagExists(u, body) ==
    IF body.tags = NoTags THEN Pass
    ELSE LET results == {t \in tags : t.id \in Range(body.tags)}
             ownedTagIds == {t.id : t \in results}
             IsBad(t) == t \notin ownedTagIds
             badIds == SelectSeq(body.tags, IsBad)
         IN  IF Len(badIds) > 0
             THEN [SendError(422, "The following tag ids don't exist")
                      EXCEPT !.badIds = badIds]
             ELSE Pass

ValidateTagOwnership(u, body) ==
    IF body.tags = NoTags THEN Pass
    ELSE LET results == {t \in tags : t.id \in Range(body.tags) /\ t.userId = u}
             ownedTagIds == {t.id : t \in results}
             IsBad(t) == t \notin ownedTagIds
             badIds == SelectSeq(body.tags, IsBad)
         IN  IF Len(badIds) > 0
             THEN [SendError(422, "The following tag ids don't exist")
                      EXCEPT !.badIds = badIds]
             ELSE Pass

\* the chain without validateTagOwnership
MiddlewareNoTags(u, body) ==
    LET ids == ValidateObjectIds(body)
    IN  IF ids # Pass THEN ids ELSE ValidateFolderOwnership(u, body)

\* the middleware of POST / and PUT /:id, in the order the routes name it
Middleware(u, body) ==
    LET ids == ValidateObjectIds(body)
        folder == ValidateFolderOwnership(u, body)
    IN  IF ids # Pass THEN ids
        ELSE IF folder # Pass THEN folder
        ELSE ValidateTagOwnership(u, body)

\* the lookups the chain issued before it passed or failed: a validator that
\* is not reached, or that returns on a falsy field, issues none
MiddlewareCalls(u, body) ==
    IF ValidateObjectIds(body) # Pass THEN <<>>
    ELSE (IF Truthy(body.folderId) THEN <<"Folder.findOne">> ELSE <<>>)
         \o (IF ValidateFolderOwnership(u, body) # Pass \/ body.tags = NoTags
             THEN <<>> ELSE <<"Tag.find">>)

\* populate('tags'): the tag documents the notes refer to
Populate(result) == {t.id : t \in {d \in tags : \E n \in result : d.id \in n.tags}}

\* the characters of a stored title or content; a field the note does not
\* have has none
Chars(v) == IF v \in Titles \cup Contents THEN <<v>> ELSE <<>>

\* the flag 'i' of the RegExp
Lower(ch) == IF ch = "X" THEN "x" ELSE ch

\* one character of the pattern against one character of the text
CharMatches(p, ch) == p = "." \/ Lower(p) = Lower(ch)

\* new RegExp(searchTerm, 'i') throws a SyntaxError for an unterminated group
RegExpValid(term) == "(" \notin Range(term)

\* { $regex: re } on a field: the pattern matches somewhere in the text
RegExpTest(term, text) ==
    \E start \in 0..(Len(text) - Len(term)) :
        \A i \in 1..Len(term) : CharMatches(term[i], text[start + i])

NoteList(u, query) ==
    LET re == query.searchTerm
        filtered == {n \in FindByUser(notes, u) :
                        /\ re # NoTerm => \/ RegExpTest(re, Chars(n.title))
                                          \/ RegExpTest(re, Chars(n.content))
                        /\ Truthy(query.folderId) => n.folderId = query.folderId
                        /\ Truthy(query.tagId) => query.tagId \in n.tags}
    IN  /\ Idle
        /\ UNCHANGED others
        /\ req' = [Request("notes.list", u, Absent, EmptyBody) EXCEPT !.query = query]
        /\ res' = IF re # NoTerm /\ ~RegExpValid(re)
                  THEN SendError(500, "Internal Server Error")
                  ELSE IF \/ Truthy(query.folderId) /\ ~IsValid(query.folderId)
                          \/ Truthy(query.tagId) /\ ~IsValid(query.tagId)
                  THEN Called(<<"Note.find">>, SendError(500, "Internal Server Error"))
                  ELSE Called(<<"Note.find">>,
                              Reply(200, {n.id : n \in filtered}, Populate(filtered)))
        /\ UNCHANGED store

\* the response of GET /:id
NoteGetResponse(u, id) ==
    IF ~IsValid(id) THEN SendError(400, "The id is not valid")
    ELSE LET result == FindOwned(notes, id, u)
         IN  Called(<<"Note.findOne">>,
                    IF result # {}
                    THEN Reply(200, {n.id : n \in result}, Populate(result))
                    ELSE SendNotFound)

NoteGet(u, id) ==
    /\ Idle
    /\ UNCHANGED others
    /\ req' = Request("notes.get", u, id, EmptyBody)
    /\ res' = NoteGetResponse(u, id)
    /\ UNCHANGED store

\* newNote with the empty folderId left in it
NewNoteKeepEmpty(u, body) ==
    [id |-> NoteId(nextNote + 1),
     title |-> body.title,
     content |-> body.content,
     folderId |-> body.folderId,
     tags |-> IF body.tags = NoTags THEN {} ELSE Range(body.tags),
     userId |-> u]

\* newNote = { title, content, folderId, tags, userId }, less an empty folderId
NewNote(u, body) ==
    [id |-> NoteId(nextNote + 1),
     title |-> body.title,
     content |-> body.content,
     folderId |-> IF body.folderId = "" THEN Absent ELSE body.folderId,
     tags |-> IF body.tags = NoTags THEN {} ELSE Range(body.tags),
     userId |-> u]

\* the response of the handler of POST /, after the middleware has issued
\* the calls: the checks of the handler, Note.create
PostHandler(u, body, calls) ==
    IF ~Truthy(body.title)
    THEN Called(calls, SendError(400, "Missing title in request body"))
    ELSE IF ForeignUserId(u, body)
    THEN Called(calls, SendError(403, "Cannot create a note on behalf of another user"))
    ELSE Called(calls \o <<"Note.create">>, Reply(201, {NewNote(u, body).id}, {}))

\* the response of POST /: the middleware, then the handler
PostResponse(u, body) ==
    LET checked == Middleware(u, body)
        calls == MiddlewareCalls(u, body)
    IN  IF checked # Pass THEN Called(calls, checked)
        ELSE PostHandler(u, body, calls)

NotePost(u, body) ==
    /\ Idle
    /\ UNCHANGED others
    /\ req' = Request("notes.post", u, Absent, body)
    /\ res' = PostResponse(u, body)
    /\ IF PostResponse(u, body).status = 201
       THEN /\ notes' = notes \cup {NewNote(u, body)}
            /\ nextNote' = nextNote + 1
            /\ UNCHANGED <<folders, tags, nextFolder, nextTag>>
       ELSE UNCHANGED store

\* the document after findOneAndUpdate applied toUpdate: the updateable
\* fields the body carries are set, an empty folderId is an $unset
\* the update without the $unset of an empty folderId
ApplyUpdateKeepFolder(n, body) ==
    [n EXCEPT
        !.title = IF body.title # Absent THEN body.title ELSE @,
        !.content = IF body.content # Absent THEN body.content ELSE @,
        !.folderId = IF body.folderId \notin {Absent, ""} THEN body.folderId ELSE @,
        !.tags = IF body.tags # NoTags THEN Range(body.tags) ELSE @,
        !.userId = IF body.userId # Absent THEN body.userId ELSE @]

ApplyUpdate(n, body) ==
    [n EXCEPT
        !.title = IF body.title # Absent THEN body.title ELSE @,
        !.content = IF body.content # Absent THEN body.content ELSE @,
        !.folderId = IF body.folderId = "" THEN Absent
                     ELSE IF body.folderId # Absent THEN body.folderId ELSE @,
        !.tags = IF body.tags # NoTags THEN Range(body.tags) ELSE @,
        !.userId = IF body.userId # Absent THEN body.userId ELSE @]

\* the response of the handler of PUT /:id, after the middleware has issued
\* the calls: the checks of the handler, Note.findOneAndUpdate
PutHandler(u, id, body, calls) ==
    IF ~IsValid(id) THEN Called(calls, SendError(400, "The id is not valid"))
    ELSE IF body.title = ""
    THEN Called(calls, SendError(400, "Missing title in request body"))
    ELSE IF ForeignUserId(u, body)
    THEN Called(calls, SendError(403, "Cannot transfer note to another user"))
    ELSE IF FindOwned(notes, id, u) = {}
    THEN Called(calls \o <<"Note.findOneAndUpdate">>, SendNotFound)
    ELSE Called(calls \o <<"Note.findOneAndUpdate">>, Reply(200, {id}, {}))

\* the response of PUT /:id: the middleware, then the handler
NotePutResponse(u, id, body) ==
    LET checked == Middleware(u, body)
        calls == MiddlewareCalls(u, body)
    IN  IF checked # Pass THEN Called(calls, checked)
        ELSE PutHandler(u, id, body, calls)

NotePut(u, id, body) ==
    LET found == FindOwned(notes, id, u)
    IN  /\ Idle
        /\ UNCHANGED others
        /\ req' = Request("notes.put", u, id, body)
        /\ res' = NotePutResponse(u, id, body)
        /\ IF NotePutResponse(u, id, body).status = 200
           THEN /\ notes' = (notes \ found) \cup {ApplyUpdate(n, body) : n \in found}
                /\ UNCHANGED <<folders, tags, nextFolder, nextTag, nextNote>>
           ELSE UNCHANGED store

\* the response of DELETE /:id
NoteDeleteResponse(u, id) ==
    IF ~IsValid(id) THEN SendError(400, "The id is not valid")
    ELSE Called(<<"Note.findOneAndDelete">>, Reply(204, {}, {}))

NoteDelete(u, id) ==
    /\ Idle
    /\ UNCHANGED others
    /\ req' = Request("notes.delete", u, id, EmptyBody)
    /\ res' = NoteDeleteResponse(u, id)
    /\ IF ~IsValid(id)
       THEN UNCHANGED store
       ELSE /\ notes' = notes \ FindOwned(notes, id, u)
            /\ UNCHANGED <<folders, tags, nextFolder, nextTag, nextNote>>

(* ---------------------------------------------------------------------- *)
(* The requests the clients send                                           *)
(* ---------------------------------------------------------------------- *)
\* tags arrays: well-formed ids of tags, a well-formed id of no tag, a malformed id
TagLists ==
    UNION {[1..k -> TagIds \cup {Missing, Malformed}] : k \in 0..MaxTagList}

PlainNote == [EmptyBody EXCEPT !.title = "x"]

\* in how many places a note request differs from the plain one, a PUT or
\* POST of {title: "x"} to a well-formed id: every field that differs counts,
\* a tags array counts for each of its elements
Varied(id, b) ==
    Cardinality({f \in {"title", "content", "folderId", "userId"} : b[f] # PlainNote[f]})
    + (IF b.tags = NoTags THEN 0 ELSE IF b.tags = <<>> THEN 1 ELSE Len(b.tags))
    + (IF id = Malformed THEN 1 ELSE 0)

AllNoteBodies ==
    [title : Titles \cup {Absent, ""},
     content : Contents \cup {Absent},
     folderId : FolderIds \cup {Absent, "", Malformed},
     tags : TagLists \cup {NoTags},
     name : {Absent},
     userId : Users \cup {Absent, Null}]

\* the bodies sent to POST / (id Absent) and to PUT /:id
BodiesFor ==
    [id \in NoteIds \cup {Absent, Malformed} |->
        {b \in AllNoteBodies : Varied(id, b) <= MaxVaried}]

NoteBodies(id) == BodiesFor[id]

Terms == UNION {[1..k -> TermChars] : k \in 0..MaxTerm}

Queries ==
    [searchTerm : Terms,
     folderId : FolderIds \cup {Absent, Malformed},
     tagId : TagIds \cup {Absent, Malformed}]

Next ==
    \/ Idle /\ \E u \in Users : FolderList(u)
    \/ Idle /\ \E u \in Users, id \in FolderIds \cup {Malformed} : FolderGet(u, id)
    \/ Idle /\ \E u \in Users, body \in NameBodies :
                  FolderPost(u, body) /\ nextFolder' <= MaxFolders
    \/ Idle /\ \E u \in Users, id \in FolderIds \cup {Malformed}, body \in NameBodies :
                  FolderPut(u, id, body)
    \/ Idle /\ \E u \in Users, id \in FolderIds \cup {Malformed} : FolderDelete(u, id)
    \/ Idle /\ \E u \in Users : TagList(u)
    \/ Idle /\ \E u \in Users, id \in TagIds \cup {Malformed} : TagGet(u, id)
    \/ Idle /\ \E u \in Users, body \in NameBodies :
                  TagPost(u, body) /\ nextTag' <= MaxTags
    \/ Idle /\ \E u \in Users, id \in TagIds \cup {Malformed}, body \in NameBodies :
                  TagPut(u, id, body)
    \/ Idle /\ \E u \in Users, id \in TagIds \cup {Malformed} : TagDelete(u, id)
    \/ Idle /\ \E u \in Users, query \in Queries : NoteList(u, query)
    \/ Idle /\ \E u \in Users, id \in NoteIds \cup {Malformed} : NoteGet(u, id)
    \/ Idle /\ \E u \in Users, body \in NoteBodies(Absent) :
                  NotePost(u, body) /\ nextNote' <= MaxNotes
    \/ Idle /\ \E u \in Users, id \in NoteIds \cup {Malformed} :
                  \E body \in NoteBodies(id) : NotePut(u, id, body)
    \/ Idle /\ \E u \in Users, id \in NoteIds \cup {Malformed} : NoteDelete(u, id)
    \/ Respond

Spec == Init /\ [][Next]_vars

(* ---------------------------------------------------------------------- *)
(* A wider store: two folders and two tags, and clients that send           *)
(* well-formed requests to them                                            *)
(* ---------------------------------------------------------------------- *)
WideFolderIds == {FolderId(i) : i \in 1..WideFolders}
WideTagIds == {TagId(i) : i \in 1..WideTags}
WideNoteIds == {NoteId(i) : i \in 1..WideNotes}

\* { name } and, for the tags router, { name, userId } with the caller's id
WideNameBodies(u) ==
    {[EmptyBody EXCEPT !.name = n, !.userId = o] : n \in Names, o \in {Absent, u}}

\* tags arrays without repetition, in the order of the ids
WideTagLists ==
    LET pairs == {p \in (1..WideTags) \X (1..WideTags) : p[1] < p[2]}
    IN  {<<>>} \cup {<<t>> : t \in WideTagIds}
               \cup {<<TagId(p[1]), TagId(p[2])>> : p \in pairs}

\* { title: "x" } with, possibly, a folderId and a tags array
WideNoteBodies ==
    {[PlainNote EXCEPT !.folderId = f, !.tags = t] :
        f \in WideFolderIds \cup {Absent}, t \in WideTagLists \cup {NoTags}}

WideNext ==
    \/ Idle /\ \E u \in Users : \E body \in WideNameBodies(u) :
                  FolderPost(u, body) /\ nextFolder' <= WideFolders
    \/ Idle /\ \E u \in Users, id \in WideFolderIds : \E body \in WideNameBodies(u) :
                  FolderPut(u, id, body)
    \/ Idle /\ \E u \in Users, id \in WideFolderIds : FolderDelete(u, id)
    \/ Idle /\ \E u \in Users : \E body \in WideNameBodies(u) :
                  TagPost(u, body) /\ nextTag' <= WideTags
    \/ Idle /\ \E u \in Users, id \in WideTagIds : \E body \in WideNameBodies(u) :
                  TagPut(u, id, body)
    \/ Idle /\ \E u \in Users, id \in WideTagIds : TagDelete(u, id)
    \/ Idle /\ \E u \in Users, body \in WideNoteBodies :
                  NotePost(u, body) /\ nextNote' <= WideNotes
    \/ Idle /\ \E u \in Users, id \in WideNoteIds, body \in WideNoteBodies :
                  NotePut(u, id, body)
    \/ Idle /\ \E u \in Users, id \in WideNoteIds : NoteDelete(u, id)
    \/ Respond

SpecWide == Init /\ [][WideNext]_vars

(* ---------------------------------------------------------------------- *)
(* Store calls that reject                                                 *)
(* ---------------------------------------------------------------------- *)
\* Folder.findOne of validateFolderOwnership rejects: its promise has a then
\* and no catch, so next is never called and no response is sent
FolderLookupFails(u, op, id, body) ==
    /\ Idle
    /\ ValidateObjectIds(body) = Pass
    /\ Truthy(body.folderId)
    /\ UNCHANGED others
    /\ req' = Faulty(Request(op, u, id, body), "Folder.findOne")
    /\ res' = Called(<<"Folder.findOne">>, Pass)
    /\ UNCHANGED store

\* Tag.find of validateTagOwnership rejects: no catch either
TagLookupFails(u, op, id, body) ==
    /\ Idle
    /\ ValidateObjectIds(body) = Pass
    /\ ValidateFolderOwnership(u, body) = Pass
    /\ body.tags # NoTags
    /\ UNCHANGED others
    /\ req' = Faulty(Request(op, u, id, body), "Tag.find")
    /\ res' = Called(MiddlewareCalls(u, body), Pass)
    /\ UNCHANGED store

\* Note.create or Note.findOneAndUpdate rejects: catch(err => next(err)), and
\* the error handler answers an error without a status with 500
NoteWriteFails(u, op, id, body) ==
    LET call == IF op = "notes.post" THEN "Note.create" ELSE "Note.findOneAndUpdate"
    IN  /\ Idle
        /\ Middleware(u, body) = Pass
        /\ IF op = "notes.post" THEN Truthy(body.title)
           ELSE IsValid(id) /\ body.title # ""
        /\ ~ForeignUserId(u, body)
        /\ UNCHANGED others
        /\ req' = Faulty(Request(op, u, id, body), call)
        /\ res' = Called(MiddlewareCalls(u, body) \o <<call>>,
                         SendError(500, "Internal Server Error"))
        /\ UNCHANGED store

\* Note.updateMany rejects after findOneAndDelete has deleted the folder or
\* the tag: catch(next)
CascadeFails(u, op, id) ==
    LET coll == IF op = "folders.delete" THEN folders ELSE tags
        deleted == FindOwned(coll, id, u)
        call == IF op = "folders.delete" THEN "Folder.findOneAndDelete"
                ELSE "Tag.findOneAndDelete"
    IN  /\ Idle
        /\ IsValid(id)
        /\ deleted # {}
        /\ UNCHANGED others
        /\ req' = Faulty(Request(op, u, id, EmptyBody), "Note.updateMany")
        /\ res' = Called(<<call, "Note.updateMany">>, SendError(500, "Internal Server Error"))
        /\ folders' = IF op = "folders.delete" THEN folders \ deleted ELSE folders
        /\ tags' = IF op = "tags.delete" THEN tags \ deleted ELSE tags
        /\ UNCHANGED <<notes, nextFolder, nextTag, nextNote>>

\* the requests of the wider store, any of which may meet a store call that
\* rejects
FailNext ==
    \/ WideNext
    \/ Idle /\ \E u \in Users, body \in WideNoteBodies :
                  \/ FolderLookupFails(u, "notes.post", Absent, body)
                  \/ \E id \in WideNoteIds : FolderLookupFails(u, "notes.put", id, body)
    \/ Idle /\ \E u \in Users, body \in WideNoteBodies :
                  \/ TagLookupFails(u, "notes.post", Absent, body)
                  \/ \E id \in WideNoteIds : TagLookupFails(u, "notes.put", id, body)
    \/ Idle /\ \E u \in Users, body \in WideNoteBodies :
                  \/ NoteWriteFails(u, "notes.post", Absent, body)
                  \/ \E id \in WideNoteIds : NoteWriteFails(u, "notes.put", id, body)
    \/ Idle /\ \E u \in Users :
                  \/ \E id \in WideFolderIds : CascadeFails(u, "folders.delete", id)
                  \/ \E id \in WideTagIds : CascadeFails(u, "tags.delete", id)

SpecFail == Init /\ [][FailNext]_vars

(* ---------------------------------------------------------------------- *)
(* Properties                                                              *)
(* ---------------------------------------------------------------------- *)
\* the owners of the documents of a collection that have one of the ids
OwnersOf(coll, ids) == {d.userId : d \in {e \in coll : e.id \in ids}}

\* the collection a request reads or writes
Collection(op) ==
    IF op \in {"folders.list", "folders.get", "folders.post", "folders.put", "folders.delete"}
    THEN folders
    ELSE IF op \in {"tags.list", "tags.get", "tags.post", "tags.put", "tags.delete"}
    THEN tags
    ELSE notes

\* some document with this id belongs to a user other than u
OwnedByAnother(coll, id, u) == \E d \in coll : d.id = id /\ d.userId \in Users \ {u}

OwnedBy(coll, id, u) == \E d \in coll : d.id = id /\ d.userId = u

\* C1: every document in the answer to a list or a get-by-id on notes,
\* folders or tags, the tag documents embedded in a note included, is owned
\* by the user who asked.
C1_ReadIsolation ==
    (req.op \in {"notes.list", "notes.get", "folders.list", "folders.get",
                 "tags.list", "tags.get"} /\ res.status = 200)
    => /\ OwnersOf(Collection(req.op), res.ids) \subseteq {req.user}
       /\ OwnersOf(tags, res.populated) \subseteq {req.user}

\* C2: a request of user A leaves every folder, tag and note of another user
\* in the store, with all its fields as they were.
C2_WriteIsolation ==
    [][\A a \in Users : req'.user = a =>
          /\ \A d \in folders : d.userId \in Users \ {a} => d \in folders'
          /\ \A d \in tags : d.userId \in Users \ {a} => d \in tags'
          /\ \A d \in notes : d.userId \in Users \ {a} => d \in notes']_vars

\* C3: a PUT of a tag that another user owns, with a name in the body and
\* any userId, is answered 404 and leaves the tags as they were.
C3_ForeignTagPut ==
    [][(/\ req'.op = "tags.put"
        /\ OwnedByAnother(tags, req'.id, req'.user)
        /\ Truthy(req'.body.name))
       => (res'.status = 404 /\ tags' = tags)]_vars

\* the folderId of a body is a well-formed id of no folder of user u
FolderUnowned(u, body) ==
    /\ body.folderId \notin {Absent, Null, "", Malformed}
    /\ ~OwnedBy(folders, body.folderId, u)

\* the well-formed ids in the tags of a body that are ids of no tag of user u
UnownedTags(u, body) ==
    IF body.tags = NoTags THEN {}
    ELSE {t \in Range(body.tags) : t # Malformed /\ ~OwnedBy(tags, t, u)}

\* no id in the body is malformed
WellFormedRefs(body) ==
    /\ body.folderId # Malformed
    /\ body.tags # NoTags => Malformed \notin Range(body.tags)

\* the body names a user, and not the one who sends it
NamesAnother(u, body) == body.userId \in Users \ {u}

\* C4: a PUT of a note or a folder that another user owns, with a body that
\* is valid otherwise, is answered 404 and leaves the store as it was.
C4_ForeignPut ==
    [][(/\ req'.op \in {"notes.put", "folders.put"}
        /\ OwnedByAnother(Collection(req'.op), req'.id, req'.user)
        /\ ~NamesAnother(req'.user, req'.body)
        /\ req'.op = "folders.put" => req'.body.name \in Names
        /\ req'.op = "notes.put" =>
              /\ req'.body.title # ""
              /\ WellFormedRefs(req'.body)
              /\ ~FolderUnowned(req'.user, req'.body)
              /\ UnownedTags(req'.user, req'.body) = {})
       => (res'.status = 404 /\ notes' = notes /\ folders' = folders)]_vars

\* a PUT with a new title to a note of another user was answered 404
C4_Witness ==
    /\ req.op = "notes.put"
    /\ res.status = 404
    /\ \E n \in notes :
          /\ n.id = req.id
          /\ n.userId \in Users \ {req.user}
          /\ req.body.title \in Titles \ {n.title}

\* C5: a DELETE of a well-formed id that is the id of no note, folder or tag
\* of the caller is answered 204 and changes nothing: the document of
\* another user stays, and no note loses a folder or a tag.
C5_ForeignDelete ==
    [][(/\ req'.op \in {"notes.delete", "folders.delete", "tags.delete"}
        /\ req'.id # Malformed
        /\ ~OwnedBy(Collection(req'.op), req'.id, req'.user))
       => (res'.status = 204 /\ notes' = notes /\ folders' = folders /\ tags' = tags)]_vars

\* a DELETE of a folder of another user, which a note refers to, was answered
C5_Witness ==
    /\ req.op = "folders.delete"
    /\ res.status = 204
    /\ OwnedByAnother(folders, req.id, req.user)
    /\ \E n \in notes : n.folderId = req.id

\* C6 as stated: a POST of a note whose folderId is a well-formed id of no
\* folder of the caller is answered 422 and stores no note.
C6_Original ==
    [][(req'.op = "notes.post" /\ FolderUnowned(req'.user, req'.body))
       => (res'.status = 422 /\ notes' = notes)]_vars

\* C6: a POST of a note whose folderId is a well-formed id of no folder of
\* the caller stores no note; it is answered 422 when no tag id of the body
\* is malformed.
C6_ForeignFolder ==
    [][(req'.op = "notes.post" /\ FolderUnowned(req'.user, req'.body))
       => /\ notes' = notes
          /\ WellFormedRefs(req'.body) => res'.status = 422]_vars

\* a POST of a note into the folder of another user was answered 422
C6_Witness ==
    /\ req.op = "notes.post"
    /\ res.status = 422
    /\ OwnedByAnother(folders, req.body.folderId, req.user)

\* C7 as stated: a POST of a note whose tags hold a well-formed id of no tag
\* of the caller is answered 422 with exactly the ids that are not the
\* caller's, and stores no note.
C7_Original ==
    [][(req'.op = "notes.post" /\ UnownedTags(req'.user, req'.body) # {})
       => /\ res'.status = 422
          /\ Range(res'.badIds) = UnownedTags(req'.user, req'.body)
          /\ notes' = notes]_vars

\* C7: a POST of a note whose tags hold a well-formed id of no tag of the
\* caller stores no note; when no id of the body is malformed and its
\* folderId, if any, is a folder of the caller, it is answered 422 with
\* exactly the tag ids that are not the caller's.
C7_ForeignTags ==
    [][(req'.op = "notes.post" /\ UnownedTags(req'.user, req'.body) # {})
       => /\ notes' = notes
          /\ (WellFormedRefs(req'.body) /\ ~FolderUnowned(req'.user, req'.body))
             => /\ res'.status = 422
                /\ Range(res'.badIds) = UnownedTags(req'.user, req'.body)]_vars

\* a POST of a note with a tag of the caller and an id of no tag of the
\* caller was answered 422, naming the second
C7_Witness ==
    /\ req.op = "notes.post"
    /\ res.status = 422
    /\ res.badIds # <<>>
    /\ \E t \in Range(req.body.tags) : OwnedBy(tags, t, req.user)

\* C8 as stated: a POST of a note whose body names another user than the
\* caller is answered 403 and stores no note; a stored note is the caller's.
C8_Original ==
    [][req'.op = "notes.post"
       => /\ NamesAnother(req'.user, req'.body)
             => (res'.status = 403 /\ notes' = notes)
          /\ \A n \in notes' \ notes : n.userId = req'.user]_vars

\* C8: a POST of a note whose body names another user stores no note and is
\* refused: with 403 when the body has a title and its folderId and tags are
\* well-formed ids of the caller's, with the 400 or 422 of the earlier check
\* otherwise.  Every note a POST stores is the caller's.
C8_OnBehalf ==
    [][req'.op = "notes.post"
       => /\ NamesAnother(req'.user, req'.body)
             => /\ notes' = notes
                /\ res'.status \in {400, 403, 422}
                /\ (/\ req'.body.title \in Titles
                    /\ WellFormedRefs(req'.body)
                    /\ ~FolderUnowned(req'.user, req'.body)
                    /\ UnownedTags(req'.user, req'.body) = {})
                   => res'.status = 403
          /\ \A n \in notes' \ notes : n.userId = req'.user]_vars

\* a POST of a note in the name of another user was answered 403
C8_Witness ==
    /\ req.op = "notes.post"
    /\ res.status = 403
    /\ req.body.userId \in Users \ {req.user}

\* C9 as stated: a PUT of a note whose folderId or tags are not the caller's
\* is answered 422 and leaves the notes as they were.
C9_Original ==
    [][(/\ req'.op = "notes.put"
        /\ \/ FolderUnowned(req'.user, req'.body)
           \/ UnownedTags(req'.user, req'.body) # {})
       => (res'.status = 422 /\ notes' = notes)]_vars

\* C9: a PUT of a note whose folderId or tags are not the caller's leaves
\* the notes as they were, whatever else the body carries; it is answered
\* 422 when no id of the body is malformed.
C9_PatchIntegrity ==
    [][(/\ req'.op = "notes.put"
        /\ \/ FolderUnowned(req'.user, req'.body)
           \/ UnownedTags(req'.user, req'.body) # {})
       => /\ notes' = notes
          /\ WellFormedRefs(req'.body) => res'.status = 422]_vars

\* a PUT to a note of the caller, with new content and a reference that is
\* not the caller's, was answered 422
C9_Witness ==
    /\ req.op = "notes.put"
    /\ res.status = 422
    /\ \E n \in notes :
          /\ n.id = req.id
          /\ n.userId = req.user
          /\ req.body.content \in Contents \ {n.content}

\* C10: a PUT of a note whose body names another user, in a request that is
\* valid otherwise, is answered 403 and leaves the notes
\* as they were; no PUT of a note changes the owner of a note.
C10_NoTransfer ==
    [][req'.op = "notes.put"
       => /\ (/\ NamesAnother(req'.user, req'.body)
              /\ req'.id # Malformed
              /\ req'.body.title # ""
              /\ WellFormedRefs(req'.body)
              /\ ~FolderUnowned(req'.user, req'.body)
              /\ UnownedTags(req'.user, req'.body) = {})
             => (res'.status = 403 /\ notes' = notes)
          /\ \A n \in notes : \A m \in notes' : m.id = n.id => m.userId = n.userId]_vars

\* the ids of the documents of a collection
Ids(coll) == {d.id : d \in coll}

\* C11: when the owner of a folder has deleted it (204), no folder has its
\* id, every note that referred to it is stored without a folder reference and
\* is otherwise as it was, every other note is as it was, and the notes are the
\* same notes as before.
C11_FolderCascade ==
    [][(/\ req'.op = "folders.delete"
        /\ OwnedBy(folders, req'.id, req'.user)
        /\ res'.status = 204)
       => /\ req'.id \notin Ids(folders')
          /\ \A n \in notes :
                IF n.folderId = req'.id
                THEN [n EXCEPT !.folderId = Absent] \in notes'
                ELSE n \in notes'
          /\ Ids(notes') = Ids(notes)
          /\ Cardinality(notes') = Cardinality(notes)]_vars

\* the owner of two folders deleted one, and a note in the other is stored
\* with its folder
C11_Witness ==
    /\ req.op = "folders.delete"
    /\ res.status = 204
    /\ "Note.updateMany" \in Range(res.calls)
    /\ \E n \in notes : n.userId = req.user /\ n.folderId \in Ids(folders)

\* C12: when the owner of a tag has deleted it (204), every note is stored
\* with the tags it had, less the deleted one, and is otherwise as it was; the
\* notes are the same notes as before.
C12_TagCascade ==
    [][(/\ req'.op = "tags.delete"
        /\ OwnedBy(tags, req'.id, req'.user)
        /\ res'.status = 204)
       => /\ \A n \in notes : [n EXCEPT !.tags = n.tags \ {req'.id}] \in notes'
          /\ \A n \in notes' : req'.id \notin n.tags
          /\ Ids(notes') = Ids(notes)
          /\ Cardinality(notes') = Cardinality(notes)]_vars

\* the owner of two tags deleted one, and a note that has the other is stored
\* with it
C12_Witness ==
    /\ req.op = "tags.delete"
    /\ res.status = 204
    /\ "Note.updateMany" \in Range(res.calls)
    /\ \E n \in notes : n.userId = req.user /\ n.tags \cap Ids(tags) # {}

\* some document of the collection has this owner and this name
NameTaken(coll, u, name) == \E d \in coll : d.userId = u /\ d.name = name

\* C13: a POST of a folder with a name that a folder of the caller has is
\* answered 400 'Folder name already exists' and stores nothing; with any
\* other name, a name of a folder of another user included, it is answered 201
\* and stores one folder of the caller with that name.
C13_NamePerOwner ==
    [][(req'.op = "folders.post" /\ Truthy(req'.body.name))
       => IF NameTaken(folders, req'.user, req'.body.name)
          THEN /\ res'.status = 400
               /\ res'.msg = "Folder name already exists"
               /\ folders' = folders
          ELSE /\ res'.status = 201
               /\ folders \subseteq folders'
               /\ Cardinality(folders') = Cardinality(folders) + 1
               /\ \A f \in folders' \ folders :
                     f.userId = req'.user /\ f.name = req'.body.name]_vars

\* two users have a folder of one name each, and a second POST of that name
\* by one of them was answered 400
C13_Witness ==
    /\ req.op = "folders.post"
    /\ res.status = 400
    /\ NameTaken(folders, req.user, req.body.name)
    /\ \E u \in Users \ {req.user} : NameTaken(folders, u, req.body.name)

\* C14: no two folders of one owner have one name, and no two tags of one
\* owner have one name; after a POST of a folder or a tag with a name, one
\* document of the caller has that name, and the POST was answered 201 or with
\* the 400 that says the name already exists.  Every create or rename is one
\* call of the store, so the requests in flight at one time act on the store
\* in some order, one call after the other, as the actions do.
C14_UniqueNames ==
    /\ \A c \in {folders, tags} : \A d, e \in c :
          (d.userId = e.userId /\ d.name = e.name) => d = e
    /\ (req.op \in {"folders.post", "tags.post"} /\ Truthy(req.body.name))
       => /\ Cardinality({d \in Collection(req.op) :
                            d.userId = req.user /\ d.name = req.body.name}) = 1
          /\ \/ res.status = 201
             \/ /\ res.status = 400
                /\ res.msg \in {"Folder name already exists", "Tag name already exists"}

\* a user has two folders, and the rename of one to the name of the other
\* was answered 400
C14_Witness ==
    /\ req.op = "folders.put"
    /\ res.status = 400
    /\ res.msg = "Folder name already exists"
    /\ Cardinality({f \in folders : f.userId = req.user}) = 2

\* C15: a PUT of a tag of the caller with a body that has a name no tag of
\* the caller has, and no userId, is answered 200 and stores the tag under its
\* id with the new name and the same owner.
C15_OwnTagRename ==
    [][(/\ req'.op = "tags.put"
        /\ OwnedBy(tags, req'.id, req'.user)
        /\ req'.body.name \in Names
        /\ req'.body.userId = Absent
        /\ ~NameTaken(tags, req'.user, req'.body.name))
       => /\ res'.status = 200
          /\ [id |-> req'.id, name |-> req'.body.name, userId |-> req'.user] \in tags'
          /\ Ids(tags') = Ids(tags)]_vars

\* C16: a GET of a well-formed id is answered 404 when no note, folder or tag
\* of the caller has the id, and 200 with the one document that has it
\* otherwise.
C16_GetById ==
    (req.op \in {"notes.get", "folders.get", "tags.get"} /\ req.id # Malformed)
    => IF OwnedBy(Collection(req.op), req.id, req.user)
       THEN res.status = 200 /\ res.ids = {req.id}
       ELSE res.status = 404

\* C17: a POST of a folder or a tag with a name and the userId of another
\* user is answered 403 and stores no folder and no tag.
C17_CreateOnBehalf ==
    [][(/\ req'.op \in {"folders.post", "tags.post"}
        /\ Truthy(req'.body.name)
        /\ NamesAnother(req'.user, req'.body))
       => (res'.status = 403 /\ folders' = folders /\ tags' = tags)]_vars

\* some id the request carries, in its path, its body or its query, is malformed
CarriesMalformed(r) ==
    \/ r.id = Malformed
    \/ r.body.folderId = Malformed
    \/ r.body.tags # NoTags /\ Malformed \in Range(r.body.tags)
    \/ r.query.folderId = Malformed
    \/ r.query.tagId = Malformed

\* C18: a request that carries a malformed id is answered with a client
\* error (4xx), and no store call was issued for it.
C18_ValidateFirst ==
    (~Idle /\ CarriesMalformed(req)) => (res.status \in 400..499 /\ res.calls = <<>>)

\* C19: every request that was handled has its response, and when a store
\* call rejected while it was handled the response is 500 with the generic
\* message.
C19_AlwaysAnswered ==
    ~Idle => /\ res.status # 0
             /\ req.fault # "none"
                => (res.status = 500 /\ res.msg = "Internal Server Error")

\* the text contains the term, letter for letter but for the case
Contains(term, text) ==
    \E start \in 0..(Len(text) - Len(term)) :
        \A i \in 1..Len(term) : Lower(term[i]) = Lower(text[start + i])

\* C20: a list of notes with well-formed filters is answered 200 with the
\* notes of the caller that pass every filter of the query and no others: the
\* searchTerm is contained in the title or in the content, whatever the case
\* of the letters, the folderId is the folder of the note, the tagId is one of
\* its tags.  With no filter these are all the notes of the caller, and with no
\* match there are none.
C20_ListFilters ==
    (/\ req.op = "notes.list"
     /\ req.query.folderId # Malformed
     /\ req.query.tagId # Malformed)
    => /\ res.status = 200
       /\ res.ids =
            {n.id : n \in
               {m \in notes :
                  /\ m.userId = req.user
                  /\ req.query.searchTerm # NoTerm
                     => \/ Contains(req.query.searchTerm, Chars(m.title))
                        \/ Contains(req.query.searchTerm, Chars(m.content))
                  /\ req.query.folderId # Absent => m.folderId = req.query.folderId
                  /\ req.query.tagId # Absent => req.query.tagId \in m.tags}}

(* ---------------------------------------------------------------------- *)
(* models/user.js, routes/users.js (signup), routes/auth.js, auth/tokens.js *)
(* Strings are sequences of characters.                                    *)
(* ---------------------------------------------------------------------- *)
\* users that sign up
MaxUsers == 2
\* tokens signed
MaxIssued == 3
\* the last tick of the clock
MaxTime == 3
\* the bounds of the length of a password
MinPassword == 8
MaxPassword == 72

UserId(i) == "u" \o ToString(i)

\* a field the body does not have
Undefined == <<Absent>>

Repeat(ch, n) == [i \in 1..n |-> ch]

\* JS truthiness of a string field of the body
TruthyString(v) == v \notin {Undefined, <<>>}

RECURSIVE TrimStart(_)
TrimStart(str) ==
    IF str # <<>> /\ Head(str) = " " THEN TrimStart(Tail(str)) ELSE str

RECURSIVE TrimEnd(_)
TrimEnd(str) ==
    IF str # <<>> /\ str[Len(str)] = " "
    THEN TrimEnd(SubSeq(str, 1, Len(str) - 1))
    ELSE str

\* String.prototype.trim
Trim(str) == TrimEnd(TrimStart(str))

\* res.json(body) with a status
Json(status, body) == [status |-> status, msg |-> "", body |-> body]

\* the validation without the check of the whitespace
ValidateNewUserUntrimmed(body) ==
    IF ~TruthyString(body.username) THEN SendError(400, "Missing username field")
    ELSE IF ~TruthyString(body.password) THEN SendError(400, "Missing password field")
    ELSE IF Len(body.username) < 1
    THEN SendError(422, "username must have a minimum length of 1")
    ELSE IF Len(body.password) < MinPassword \/ Len(body.password) > MaxPassword
    THEN SendError(422, "password must be between 8 and 72 characters long")
    ELSE Pass

ValidateNewUser(body) ==
    IF ~TruthyString(body.username) THEN SendError(400, "Missing username field")
    ELSE IF ~TruthyString(body.password) THEN SendError(400, "Missing password field")
    ELSE IF Len(body.username) < 1
    THEN SendError(422, "username must have a minimum length of 1")
    ELSE IF Len(body.password) < MinPassword \/ Len(body.password) > MaxPassword
    THEN SendError(422, "password must be between 8 and 72 characters long")
    ELSE IF Trim(body.username) # body.username \/ Trim(body.password) # body.password
    THEN SendError(422, "usernames and passwords must not have leading/trailing whitespace")
    ELSE Pass

\* bcrypt.hash(password, 10): a digest, which is not the password
HashPassword(password) == <<"$", "2", "a", "$">> \o password

\* bcrypt.compare(password, this.password)
ValidatePassword(doc, password) == doc.password = HashPassword(password)

\* User.create({ username, fullname, password: digest }): a path that is
\* undefined is not set in the document
NewUser(body) ==
    LET doc == [_id |-> UserId(Cardinality(users) + 1), __v |-> 0,
                username |-> body.username, password |-> HashPassword(body.password)]
    IN  IF body.fullname = Undefined THEN doc
        ELSE doc @@ [fullname |-> body.fullname]

\* username: { unique: true }
UsernameTaken(username) == \E d \in users : d.username = username

\* serializationOption: virtuals: true adds id, the transform deletes _id,
\* __v and password
Serialize(doc) ==
    [k \in (DOMAIN doc \ {"_id", "__v", "password"}) \cup {"id"} |->
        IF k = "id" THEN doc["_id"] ELSE doc[k]]

\* toJSON: serializationOption
ToJSON(doc) == Serialize(doc)

\* the document with its virtuals and without a transform
Untransformed(doc) ==
    [k \in DOMAIN doc \cup {"id"} |-> IF k = "id" THEN doc["_id"] ELSE doc[k]]

\* toObject: serializationOption
ToObject(doc) == Serialize(doc)

\* config.js: the expiry of a token, in ticks of the clock
JWT_EXPIRY == 2

\* the payload signed with another subject than the username of the user
CreateAuthTokenForAdmin(user) ==
    [user |-> user, sub |-> <<"r", "o", "o", "t">>, iat |-> now, exp |-> now + JWT_EXPIRY]

\* jsonwebtoken.sign({ user }, JWT_SECRET, { subject: user.username, expiresIn: JWT_EXPIRY })
CreateAuthToken(user) ==
    [user |-> user, sub |-> user.username, iat |-> now, exp |-> now + JWT_EXPIRY]

\* the response of POST /api/users
SignupResponse(body) ==
    IF ValidateNewUser(body) # Pass THEN ValidateNewUser(body)
    ELSE IF UsernameTaken(body.username)
    THEN Called(<<"User.create">>, SendError(400, "The username already exists"))
    ELSE Json(201, ToJSON(NewUser(body)))

\* POST /api/users
Signup(body) ==
    /\ Idle
    /\ req' = Request("users.post", Absent, Absent, body)
    /\ res' = SignupResponse(body)
    /\ IF SignupResponse(body).status = 201
       THEN users' = users \cup {NewUser(body)}
       ELSE UNCHANGED users
    /\ UNCHANGED <<store, issued, now, inflight>>

\* passport.authenticate('local', { failWithError: true }): the strategy
\* finds the user of the username and validates the password
LocalStrategy(body) ==
    IF ~TruthyString(body.username) \/ ~TruthyString(body.password)
    THEN SendError(400, "Bad Request")
    ELSE IF \E d \in users : d.username = body.username /\ ValidatePassword(d, body.password)
    THEN Pass
    ELSE SendError(401, "Unauthorized")

\* req.user after the local strategy
LocalUser(body) ==
    CHOOSE d \in users : d.username = body.username /\ ValidatePassword(d, body.password)

\* POST /api/login
Login(body) ==
    /\ Idle
    /\ req' = Request("auth.login", Absent, Absent, body)
    /\ IF LocalStrategy(body) # Pass
       THEN /\ res' = LocalStrategy(body)
            /\ UNCHANGED issued
       ELSE LET authToken == CreateAuthToken(ToObject(LocalUser(body)))
            IN  /\ res' = Json(200, [authToken |-> authToken])
                /\ issued' = issued \cup {authToken}
    /\ UNCHANGED <<store, users, now, inflight>>

\* auth/tokenAuth.js: the token has a signature of this server and has not
\* expired; req.user is the user of its payload
TokenAuth(token) ==
    IF token \in issued /\ now < token.exp THEN Pass ELSE SendError(401, "Unauthorized")

\* POST /api/refresh
Refresh(token) ==
    /\ Idle
    /\ req' = Request("auth.refresh", Absent, Absent, [authorization |-> token])
    /\ IF TokenAuth(token) # Pass
       THEN /\ res' = TokenAuth(token)
            /\ UNCHANGED issued
       ELSE LET authToken == CreateAuthToken(token.user)
            IN  /\ res' = Json(200, [authToken |-> authToken])
                /\ issued' = issued \cup {authToken}
    /\ UNCHANGED <<store, users, now, inflight>>

\* time passes between two requests
Tick ==
    /\ Idle
    /\ now < MaxTime
    /\ now' = now + 1
    /\ UNCHANGED <<store, req, res, users, issued, inflight>>

\* the usernames and the passwords that the clients send
Usernames == {<<"a">>, <<"b">>, <<" ", "a">>, <<"a", " ">>, <<>>, Undefined}
Passwords ==
    {Repeat("p", MinPassword), Repeat("p", MaxPassword),
     Repeat("p", MinPassword - 1), Repeat("p", MaxPassword + 1),
     <<" ">> \o Repeat("p", MinPassword), Repeat("p", MinPassword) \o <<" ">>,
     <<>>, Undefined}
Fullnames == {<<"F">>, Undefined}

Credentials ==
    [username : Usernames, password : Passwords, fullname : Fullnames]

\* a token that this server has not signed
Forged ==
    [user |-> [username |-> <<"a">>, id |-> UserId(2)], sub |-> <<"a">>,
     iat |-> 0, exp |-> MaxTime + JWT_EXPIRY]

AuthNext ==
    \/ Idle /\ \E body \in Credentials : Signup(body) /\ Cardinality(users') <= MaxUsers
    \/ Idle /\ \E body \in Credentials : Login(body) /\ Cardinality(issued') <= MaxIssued
    \/ Idle /\ \E token \in issued \cup {Forged} :
                  Refresh(token) /\ Cardinality(issued') <= MaxIssued
    \/ Tick
    \/ Respond

SpecAuth == Init /\ [][AuthNext]_vars

\* C21: in every state, a POST of a note with the folderId '' has the
\* response status and stores the note that the POST of the same body without
\* folderId has, and the note has no folder; the note that such a POST has
\* stored has no folder.
C21_EmptyFolderId ==
    /\ Idle => \A u \in Users : \A b \in NoteBodies(Absent) :
          b.folderId = ""
          => LET omitted == [b EXCEPT !.folderId = Absent]
             IN  /\ PostResponse(u, b).status = PostResponse(u, omitted).status
                 /\ NewNote(u, b) = NewNote(u, omitted)
                 /\ NewNote(u, b).folderId = Absent
    /\ (req.op = "notes.post" /\ req.body.folderId = "" /\ res.status = 201)
       => \A n \in notes : n.id \in res.ids => n.folderId = Absent

\* a POST of a note with the folderId '' and a content was answered 201
C21_Witness ==
    /\ req.op = "notes.post"
    /\ req.body.folderId = ""
    /\ req.body.content \in Contents
    /\ res.status = 201
    /\ \E n \in notes : n.id \in res.ids /\ n.folderId = Absent

\* C22: a PUT answered 200 whose body has the folderId '' leaves the note
\* without a folder, and a PUT answered 200 whose body has no folderId leaves
\* the folder of the note as it was.
C22_FolderPatch ==
    [][(Idle /\ req'.op = "notes.put" /\ res'.status = 200)
       => \A n \in notes : n.id = req'.id
            => \E m \in notes' :
                 /\ m.id = n.id
                 /\ req'.body.folderId = "" => m.folderId = Absent
                 /\ req'.body.folderId = Absent => m.folderId = n.folderId]_vars

\* a PUT with the folderId '' was answered 200 while the caller has a folder,
\* and the note has no folder
C22_Witness ==
    /\ req.op = "notes.put"
    /\ req.body.folderId = ""
    /\ res.status = 200
    /\ \E f \in folders : f.userId = req.user
    /\ \E n \in notes : n.id = req.id /\ n.folderId = Absent

\* the fields of a note that a PUT with the body leaves as they were
Frame(n, m, body) ==
    /\ body.title = Absent => m.title = n.title
    /\ body.content = Absent => m.content = n.content
    /\ body.folderId = Absent => m.folderId = n.folderId
    /\ body.tags = NoTags => m.tags = n.tags

\* C23: a PUT of a note answered 200 leaves every field of the note that the
\* body does not have as it was, leaves the id and the owner of the note as
\* they were, and leaves the other notes as they were.
C23_PartialUpdate ==
    [][(Idle /\ req'.op = "notes.put" /\ res'.status = 200)
       => /\ \A n \in notes : n.id = req'.id
               => \E m \in notes' :
                    /\ m.id = n.id
                    /\ Frame(n, m, req'.body)
                    /\ m.userId = n.userId
          /\ \A n \in notes : n.id # req'.id => n \in notes']_vars

\* the frame of C23 without the owner of the note
C23_FrameOnly ==
    [][(Idle /\ req'.op = "notes.put" /\ res'.status = 200)
       => /\ \A n \in notes : n.id = req'.id
               => \E m \in notes' : m.id = n.id /\ Frame(n, m, req'.body)
          /\ \A n \in notes : n.id # req'.id => n \in notes']_vars

\* two responses have the same status and the same body
SameResponse(a, b) ==
    /\ a.status = b.status
    /\ a.msg = b.msg
    /\ a.ids = b.ids
    /\ a.populated = b.populated

\* the ids of a collection that users other than u own
IdsOfOthers(coll, u) == {d.id : d \in {e \in coll : e.userId \in Users \ {u}}}

\* C24: in every state, a get, a put or a delete of a note, a folder or a
\* tag with the id of a document that another user owns has the response
\* that the same request has with a well-formed id that no document has.
C24_ExistenceHiding ==
    Idle => \A u \in Users :
        /\ \A id \in IdsOfOthers(folders, u) :
              /\ SameResponse(FolderGetResponse(u, id), FolderGetResponse(u, Missing))
              /\ SameResponse(FolderDeleteResponse(u, id), FolderDeleteResponse(u, Missing))
              /\ \A body \in NameBodies :
                    SameResponse(FolderPutResponse(u, id, body),
                                 FolderPutResponse(u, Missing, body))
        /\ \A id \in IdsOfOthers(tags, u) :
              /\ SameResponse(TagGetResponse(u, id), TagGetResponse(u, Missing))
              /\ SameResponse(TagDeleteResponse(u, id), TagDeleteResponse(u, Missing))
              /\ \A body \in NameBodies :
                    SameResponse(TagPutResponse(u, id, body),
                                 TagPutResponse(u, Missing, body))
        /\ \A id \in IdsOfOthers(notes, u) :
              /\ SameResponse(NoteGetResponse(u, id), NoteGetResponse(u, Missing))
              /\ SameResponse(NoteDeleteResponse(u, id), NoteDeleteResponse(u, Missing))
              /\ \A body \in NoteBodies(id) :
                    SameResponse(NotePutResponse(u, id, body),
                                 NotePutResponse(u, Missing, body))

\* C25 as stated: the body of a signup answered 201 has no password, and the
\* user of the payload of every token signed by login or refresh has exactly
\* the keys username, fullname and id.
C25_Original ==
    /\ (req.op = "users.post" /\ res.status = 201) => "password" \notin DOMAIN res.body
    /\ \A t \in issued : DOMAIN t.user = {"username", "fullname", "id"}

\* C25: the body of a signup answered 201 has no password; the user of the
\* payload of every token signed by login or refresh has no password, has
\* the keys username and id, has the key fullname exactly when the user
\* signed up with a fullname, and has no other key.
C25_NoDigest ==
    /\ (req.op = "users.post" /\ res.status = 201) => "password" \notin DOMAIN res.body
    /\ \A t \in issued :
          /\ "password" \notin DOMAIN t.user
          /\ \E d \in users :
                /\ d["_id"] = t.user.id
                /\ d.username = t.user.username
                /\ DOMAIN t.user =
                     {"username", "id"} \cup (DOMAIN d \cap {"fullname"})

\* a login of a user who signed up without a fullname was answered with a
\* token whose payload has the keys username and id only
C25_Witness ==
    /\ req.op = "auth.login"
    /\ res.status = 200
    /\ res.body.authToken \in issued
    /\ DOMAIN res.body.authToken.user = {"username", "id"}
    /\ \E d \in users : d["_id"] = res.body.authToken.user.id /\ "password" \in DOMAIN d

Padded(str) == str # <<>> /\ (Head(str) = " " \/ str[Len(str)] = " ")

\* C27: a signup without a username or without a password is answered 400; a
\* signup with an empty one is answered 400 or 422; one with a password
\* shorter than 8 or longer than 72, or with a username or a password with a
\* space at its start or its end, is answered 422; one with the username of
\* a stored user is answered 400; none of these stores a user. Every other
\* signup is answered 201 and stores one user with the username. No two
\* stored users have the same username.
C27_Signup ==
    [][(Idle /\ req'.op = "users.post")
       => LET username == req'.body.username
              password == req'.body.password
          IN  /\ IF username = Undefined \/ password = Undefined
                 THEN res'.status = 400 /\ users' = users
                 ELSE IF username = <<>> \/ password = <<>>
                 THEN res'.status \in {400, 422} /\ users' = users
                 ELSE IF \/ Len(password) < 8 \/ Len(password) > 72
                         \/ Padded(username) \/ Padded(password)
                 THEN res'.status = 422 /\ users' = users
                 ELSE IF \E d \in users : d.username = username
                 THEN res'.status = 400 /\ users' = users
                 ELSE /\ res'.status = 201
                      /\ \E d \in users' \ users :
                            /\ users' = users \cup {d}
                            /\ d.username = username
                            /\ d.password # password
              /\ \A d, e \in users' : d.username = e.username => d = e]_vars

\* a signup with a password of 72 characters was answered 201 while another
\* user was stored
C27_Witness ==
    /\ req.op = "users.post"
    /\ res.status = 201
    /\ Len(req.body.password) = 72
    /\ Cardinality(users) = 2
    /\ \E d \in users : d.username = req.body.username /\ d["_id"] = res.body.id

\* C28: in every state, the folder of every note is a stored folder of the
\* owner of the note, and every tag of every note is a stored tag of the
\* owner of the note.
C28_ReferentialIntegrity ==
    \A n \in notes :
        /\ n.folderId # Absent
           => \E f \in folders : f.id = n.folderId /\ f.userId = n.userId
        /\ \A t \in n.tags : \E g \in tags : g.id = t /\ g.userId = n.userId

(* ---------------------------------------------------------------------- *)
(* Requests that overlap: every store call of a note create, a note update, *)
(* a folder delete and a tag delete is a step of its own                    *)
(* ---------------------------------------------------------------------- *)
\* requests in flight at once
MaxFlights == 2

\* a request between two of its store calls: the call it issues next, the
\* calls it has issued, and the documents its delete has removed
Flight(op, u, id, body, phase, calls, deleted) ==
    [op |-> op, user |-> u, id |-> id, body |-> body, phase |-> phase,
     calls |-> calls, deleted |-> deleted]

\* validateObjectIds and validateFolderOwnership of a POST or a PUT of a note:
\* Folder.findOne reads the folders as they are now
ValidateFolderOwnershipStep(u, op, id, body) ==
    LET checked == IF ValidateObjectIds(body) # Pass THEN ValidateObjectIds(body)
                   ELSE ValidateFolderOwnership(u, body)
        calls == IF ValidateObjectIds(body) = Pass /\ Truthy(body.folderId)
                 THEN <<"Folder.findOne">> ELSE <<>>
    IN  /\ Idle
        /\ IF checked # Pass
           THEN /\ req' = Request(op, u, id, body)
                /\ res' = Called(calls, checked)
                /\ UNCHANGED inflight
           ELSE /\ inflight' = inflight \cup {Flight(op, u, id, body, "Tag.find", calls, {})}
                /\ UNCHANGED <<req, res>>
        /\ UNCHANGED <<store, users, issued, now>>

\* validateTagOwnership: Tag.find reads the tags as they are now
ValidateTagOwnershipStep(r) ==
    LET checked == ValidateTagOwnership(r.user, r.body)
        calls == r.calls \o (IF r.body.tags = NoTags THEN <<>> ELSE <<"Tag.find">>)
    IN  /\ Idle
        /\ r.phase = "Tag.find"
        /\ IF checked # Pass
           THEN /\ req' = Request(r.op, r.user, r.id, r.body)
                /\ res' = Called(calls, checked)
                /\ inflight' = inflight \ {r}
           ELSE /\ inflight' = (inflight \ {r})
                                 \cup {[r EXCEPT !.phase = "Note.write", !.calls = calls]}
                /\ UNCHANGED <<req, res>>
        /\ UNCHANGED <<store, users, issued, now>>

\* the handler of the POST or the PUT: Note.create or Note.findOneAndUpdate
\* writes the notes as they are now
HandlerStep(r) ==
    LET response == IF r.op = "notes.post" THEN PostHandler(r.user, r.body, r.calls)
                    ELSE PutHandler(r.user, r.id, r.body, r.calls)
        found == FindOwned(notes, r.id, r.user)
    IN  /\ Idle
        /\ r.phase = "Note.write"
        /\ req' = Request(r.op, r.user, r.id, r.body)
        /\ res' = response
        /\ inflight' = inflight \ {r}
        /\ IF response.status = 201
           THEN /\ notes' = notes \cup {NewNote(r.user, r.body)}
                /\ nextNote' = nextNote + 1
                /\ UNCHANGED <<folders, tags, nextFolder, nextTag>>
           ELSE IF response.status = 200
           THEN /\ notes' = (notes \ found) \cup {ApplyUpdate(n, r.body) : n \in found}
                /\ UNCHANGED <<folders, tags, nextFolder, nextTag, nextNote>>
           ELSE UNCHANGED store
        /\ UNCHANGED <<users, issued, now>>

\* Folder.findOneAndDelete or Tag.findOneAndDelete of a DELETE /:id
FindOneAndDeleteStep(u, op, id) ==
    LET coll == IF op = "folders.delete" THEN folders ELSE tags
        deleted == FindOwned(coll, id, u)
        call == IF op = "folders.delete" THEN "Folder.findOneAndDelete"
                ELSE "Tag.findOneAndDelete"
    IN  /\ Idle
        /\ IF ~IsValid(id)
           THEN /\ req' = Request(op, u, id, EmptyBody)
                /\ res' = SendError(400, "The id is not valid")
                /\ UNCHANGED <<store, inflight>>
           ELSE /\ IF op = "folders.delete"
                   THEN folders' = folders \ deleted /\ UNCHANGED tags
                   ELSE tags' = tags \ deleted /\ UNCHANGED folders
                /\ inflight' = inflight
                      \cup {Flight(op, u, id, EmptyBody, "Note.updateMany", <<call>>, deleted)}
                /\ UNCHANGED <<notes, nextFolder, nextTag, nextNote, req, res>>
        /\ UNCHANGED <<users, issued, now>>

\* the then of the delete: if (!deleted) return; Note.updateMany; 204
UpdateManyStep(r) ==
    /\ Idle
    /\ r.phase = "Note.updateMany"
    /\ notes' = Cascade(r.deleted, notes,
                        IF r.op = "folders.delete" THEN UnsetFolder(notes, r.id)
                        ELSE PullTag(notes, r.id))
    /\ req' = Request(r.op, r.user, r.id, EmptyBody)
    /\ res' = Called(Cascade(r.deleted, r.calls, r.calls \o <<"Note.updateMany">>),
                     Reply(204, {}, {}))
    /\ inflight' = inflight \ {r}
    /\ UNCHANGED <<folders, tags, nextFolder, nextTag, nextNote, users, issued, now>>

\* the notes that the overlapping requests send
OverlapBodies ==
    {[EmptyBody EXCEPT !.title = "x", !.folderId = f, !.tags = t] :
        f \in FolderIds \cup {Absent}, t \in {NoTags} \cup {<<g>> : g \in TagIds}}

OverlapNext ==
    \/ Idle /\ \E u \in Users : \E body \in WideNameBodies(u) :
                  FolderPost(u, body) /\ nextFolder' <= MaxFolders
    \/ Idle /\ \E u \in Users : \E body \in WideNameBodies(u) :
                  TagPost(u, body) /\ nextTag' <= MaxTags
    \/ Idle /\ \E u \in Users, body \in OverlapBodies :
                  /\ ValidateFolderOwnershipStep(u, "notes.post", Absent, body)
                  /\ Cardinality(inflight') <= MaxFlights
    \/ Idle /\ \E u \in Users, id \in NoteIds, body \in OverlapBodies :
                  /\ ValidateFolderOwnershipStep(u, "notes.put", id, body)
                  /\ Cardinality(inflight') <= MaxFlights
    \/ Idle /\ \E r \in inflight : ValidateTagOwnershipStep(r)
    \/ Idle /\ \E r \in inflight : HandlerStep(r) /\ nextNote' <= MaxNotes
    \/ Idle /\ \E u \in Users, id \in FolderIds \cup {Malformed} :
                  /\ FindOneAndDeleteStep(u, "folders.delete", id)
                  /\ Cardinality(inflight') <= MaxFlights
    \/ Idle /\ \E u \in Users, id \in TagIds \cup {Malformed} :
                  /\ FindOneAndDeleteStep(u, "tags.delete", id)
                  /\ Cardinality(inflight') <= MaxFlights
    \/ Idle /\ \E r \in inflight : UpdateManyStep(r)
    \/ Respond

SpecOverlap == Init /\ [][OverlapNext]_vars

\* C29: whenever no request is in flight, no note has the id of a deleted
\* folder as its folder and no note has the id of a deleted tag among its
\* tags.
C29_TransientOnly ==
    inflight = {}
    => \A n \in notes :
         /\ n.folderId \notin {FolderId(i) : i \in 1..nextFolder} \ Ids(folders)
         /\ n.tags \cap ({TagId(i) : i \in 1..nextTag} \ Ids(tags)) = {}

\* C30: a POST of a note without a title, or with an empty one, is answered
\* 400 'Missing title in request body' with no store call issued for it, and
\* leaves the notes as they were, whatever folderId and tags its body has.
C30_TitleFirst ==
    [][(Idle /\ req'.op = "notes.post" /\ ~Truthy(req'.body.title))
       => /\ res'.status = 400
          /\ res'.msg = "Missing title in request body"
          /\ res'.calls = <<>>
          /\ notes' = notes]_vars

\* the part of C30 that the code has: no such POST stores a note, and it is
\* answered with a client error
C30_NothingStored ==
    [][(Idle /\ req'.op = "notes.post" /\ ~Truthy(req'.body.title))
       => (res'.status \in {400, 422} /\ notes' = notes)]_vars

====
